---- MODULE Spec2Model ----
(***************************************************************************)
(* News-feed retrieval and caching layer of app/services/news_feed.py:     *)
(* the single-slot TTL cache (InMemoryCache), the feed fetcher             *)
(* (fetch_abc_feed) and its per-article full-text enrichment.              *)
(*                                                                         *)
(* Optional values (Python None / a value) are encoded as sequences of     *)
(* length 0 or 1: None == << >>, Some(x) == << x >>.  A cached empty       *)
(* article list is therefore Some(<< >>), which is not None.               *)
(***************************************************************************)
EXTENDS Integers, Sequences, FiniteSets, TLC

VARIABLES
    now,                    \* time.time(), in whole seconds
    value,                  \* _feed_cache._value
    expiry_epoch,           \* _feed_cache._expiry_epoch
    call,                   \* what the fetch_abc_feed call that just returned did
    lastSet,                \* the most recent InMemoryCache.set: value, ttl, time
    prevSet,                \* the InMemoryCache.set before it (cache scenario)
    got,                    \* the most recent direct InMemoryCache.get: result, time
    servedFor,              \* the arguments of the fetch whose result the cache
                            \* is serving; None while it serves nothing
    threads,                \* interleaved fetch_abc_feed calls: position and locals
    setOrder,               \* the threads in the order they assigned _value
    response                \* the latest HTTP request to /news and its response

vars == << now, value, expiry_epoch, call, lastSet, prevSet, got, servedFor, threads, setOrder, response >>

(* the state of the interleaved calls *)
concVars == << threads, setOrder >>

----------------------------------------------------------------------------
(* Bounds of the model *)

MaxTicks == 3       \* the clock advances at most MaxTicks times
MaxEntries == 2     \* a feed document holds at most MaxEntries entries
NumThreads == 2     \* fetch_abc_feed calls that run interleaved

----------------------------------------------------------------------------
(* Optional values *)

None == << >>
Some(x) == << x >>

(* Python truthiness of a string: "" is falsy *)
Truthy(s) == s # ""

----------------------------------------------------------------------------
(* Configuration: app/config.py *)

abc_feeds ==
    [ n \in {"top_stories", "australia", "just_in"} |->
        CASE n = "top_stories" -> "https://www.abc.net.au/news/feed/51120/rss.xml"
          [] n = "australia"   -> "https://www.abc.net.au/news/feed/51892/rss.xml"
          [] n = "just_in"     -> "https://www.abc.net.au/news/feed/52498/rss.xml" ]

(* Cache TTL for feed results (seconds) *)
rss_cache_ttl_seconds == 600

(* the clock is observed every half TTL, so that a time inside the TTL     *)
(* window, the expiry itself and times after it all occur                  *)
TickSeconds == rss_cache_ttl_seconds \div 2

(* settings.abc_feeds.get(feed_name): None for a name that is not a key *)
abc_feeds_get(feed_name) ==
    IF feed_name \in DOMAIN abc_feeds THEN Some(abc_feeds[feed_name]) ELSE None

(* the feed names callers pass: two registered ones and one that is not *)
FeedNames == {"top_stories", "australia", "does-not-exist"}

----------------------------------------------------------------------------
(* Feed entries as the parser delivers them: a record holding only the     *)
(* fields the document gave the entry.                                     *)

EntryPool ==
    { [title |-> "T1", link |-> "http://a/1", published |-> "2025-01-01", summary |-> "S1"],
      [title |-> "T2", link |-> ""],
      [published |-> "2025-01-03", summary |-> "S3"] }

(* What Article(link).download()/parse()/.text does for one article: it    *)
(* raises, or it returns the extracted text (possibly empty).              *)
Raised == [raised |-> TRUE, text |-> ""]
Extracted(s) == [raised |-> FALSE, text |-> s]
Outcomes == {Raised, Extracted(""), Extracted("body text")}
NotAttempted == [raised |-> FALSE, text |-> "<not attempted>"]

SeqsUpTo(S, n) == UNION { [1..k -> S] : k \in 0..n }

----------------------------------------------------------------------------
(* NewsArticle construction: news_feed.py lines 73-78 *)

(* variant: a missing field is not defaulted to the empty string *)
getattr_no_default(entry, name) == IF name \in DOMAIN entry THEN entry[name] ELSE "None"

(* getattr(entry, name, "") *)
getattr(entry, name) == IF name \in DOMAIN entry THEN entry[name] ELSE ""

NewsArticle(entry) ==
    [ title     |-> getattr(entry, "title"),
      link      |-> getattr(entry, "link"),
      published |-> getattr(entry, "published"),
      summary   |-> getattr(entry, "summary"),
      full_text |-> None ]

(* variant: the link is not looked at *)
EnrichAttempted_any_link(entry, full_text) == full_text

(* the guard of line 79: full_text and article.link *)
EnrichAttempted(entry, full_text) == full_text /\ Truthy(NewsArticle(entry).link)

(* variant: the inner try is missing, a raising enrichment leaves the loop *)
EnrichEscapes_uncaught(outcome) == outcome.raised

(* lines 80, 86: `except Exception` catches whatever lines 82-85 raise, so *)
(* no enrichment failure leaves the inner try                              *)
EnrichEscapes(outcome) == FALSE

(* variant: the extracted text is stored as it is, empty or not *)
EnrichEmptyKept(outcome) ==
    IF outcome.raised THEN None ELSE Some(outcome.text)

(* variant: the extracted text is never assigned *)
EnrichDiscarded(outcome) == None

(* lines 85, 87: art.text or None, and None when anything raised *)
EnrichedText(outcome) ==
    IF outcome.raised THEN None
    ELSE IF Truthy(outcome.text) THEN Some(outcome.text) ELSE None

(* one pass of the loop body, lines 73-88 *)
BuildArticle(entry, outcome, full_text) ==
    IF EnrichAttempted(entry, full_text)
    THEN [NewsArticle(entry) EXCEPT !.full_text = EnrichedText(outcome)]
    ELSE NewsArticle(entry)

(* variant: each article is put in front of the list *)
BuildArticles_reversed(entries, outcomes, full_text) ==
    [ i \in 1..Len(entries) |->
        BuildArticle(entries[Len(entries) + 1 - i], outcomes[Len(entries) + 1 - i], full_text) ]

(* the loop of lines 71-88: articles.append in document order *)
BuildArticles(entries, outcomes, full_text) ==
    [ i \in 1..Len(entries) |-> BuildArticle(entries[i], outcomes[i], full_text) ]

----------------------------------------------------------------------------
(* InMemoryCache: news_feed.py lines 23-40 *)

(* variant: the boundary time still served *)
InMemoryCache_get_inclusive(v, expiry, t) ==
    IF v # None /\ t <= expiry THEN v ELSE None

(* variant: a stored value never goes stale *)
InMemoryCache_get_ignores_expiry(v, expiry, t) == v

(* variant: the value is tested for truth, `if self._value and ...` *)
InMemoryCache_get_truthy(v, expiry, t) ==
    IF v # None /\ v[1] # << >> /\ t < expiry THEN v ELSE None

(* get(): lines 33-36, read at time t *)
InMemoryCache_get(v, expiry, t) ==
    IF v # None /\ t < expiry THEN v ELSE None

(* variant: a read renews the expiry *)
expiry_after_get_sliding(expiry, t) == t + rss_cache_ttl_seconds

(* get() assigns nothing: _expiry_epoch after a get() at time t *)
expiry_after_get(expiry, t) == expiry

(* variant: a later expiry already stored is kept *)
InMemoryCache_set_keeps_later_expiry(v, ttl_seconds, t) ==
    [value |-> v,
     expiry_epoch |-> IF expiry_epoch > t + ttl_seconds THEN expiry_epoch ELSE t + ttl_seconds]

(* variant: the TTL is not added *)
InMemoryCache_set_no_ttl(v, ttl_seconds, t) ==
    [value |-> v, expiry_epoch |-> t]

(* variant: a value already in the slot is kept *)
InMemoryCache_set_first_wins(v, ttl_seconds, t) ==
    [ value |-> IF value # None THEN value ELSE v, expiry_epoch |-> t + ttl_seconds ]

(* set(value, ttl_seconds): lines 38-40, executed at time t *)
InMemoryCache_set(v, ttl_seconds, t) ==
    [value |-> v, expiry_epoch |-> t + ttl_seconds]

(* the values the cache is exercised with directly: article lists, the     *)
(* empty list among them                                                   *)
CacheValues ==
    { BuildArticles(es, [i \in 1..Len(es) |-> NotAttempted], FALSE) :
        es \in SeqsUpTo(EntryPool, 1) }

----------------------------------------------------------------------------
(* State after construction: _feed_cache = InMemoryCache(), lines 29-31, 43 *)

(* the record of a call: its arguments, how it ended (kind "ok" for a      *)
(* return, else the exception raised), what it returned, what the feed     *)
(* parser delivered (parsed, entries, outcomes) or raised (raised), what   *)
(* the exception carries (cause) and the network requests it made          *)
CallRecord(kind, feed_name, full_text, hit, result, parsed, entries, outcomes, raised, cause, feed_requests, enrich_requests) ==
    [ kind |-> kind, feed_name |-> feed_name, full_text |-> full_text, hit |-> hit,
      result |-> result, parsed |-> parsed, entries |-> entries,
      outcomes |-> outcomes, raised |-> raised, cause |-> cause,
      feed_requests |-> feed_requests, enrich_requests |-> enrich_requests,
      at |-> now ]

NoCall ==
    [ kind |-> "none", feed_name |-> "", full_text |-> FALSE, hit |-> FALSE,
      result |-> << >>, parsed |-> FALSE, entries |-> << >>, outcomes |-> << >>,
      raised |-> "", cause |-> "", feed_requests |-> 0, enrich_requests |-> 0,
      at |-> 0 ]

(* a thread that has not called fetch_abc_feed yet *)
IdleThread ==
    [ pc |-> "idle", feed_name |-> "", full_text |-> FALSE, entries |-> << >>,
      outcomes |-> << >>, articles |-> << >>, kind |-> "none", hit |-> FALSE,
      result |-> << >>, from |-> 0, feed_requests |-> 0 ]

(* no request has been answered yet *)
NoResponse ==
    [ handler |-> "none", status |-> 0, feed_name |-> "", count |-> 0, index |-> 0,
      tools |-> << >>, question |-> << >>, broken |-> {}, article |-> << >>,
      text |-> "", tool_list |-> << >>, outputs |-> << >>, calls |-> << >> ]

Init ==
    /\ now = 0
    /\ value = None
    /\ expiry_epoch = 0
    /\ call = NoCall
    /\ lastSet = None
    /\ prevSet = None
    /\ got = None
    /\ servedFor = None
    /\ threads = [t \in 1..NumThreads |-> IdleThread]
    /\ setOrder = << >>
    /\ response = NoResponse

(* the clock advances between calls; the call that had just returned is    *)
(* no longer the latest event                                              *)
Tick ==
    /\ now < MaxTicks * TickSeconds
    /\ now' = now + TickSeconds
    /\ call' = NoCall
    /\ servedFor' = IF now' < expiry_epoch THEN servedFor ELSE None
    /\ UNCHANGED << value, expiry_epoch, lastSet, prevSet, got, concVars, response >>

----------------------------------------------------------------------------
(* The cache exercised on its own: set and get called directly *)

CacheTtls == {0, TickSeconds, 2 * TickSeconds}

CacheSet ==
    \E v \in CacheValues, ttl \in CacheTtls :
        LET c == InMemoryCache_set(Some(v), ttl, now) IN
        /\ value' = c.value
        /\ expiry_epoch' = c.expiry_epoch
        /\ prevSet' = lastSet
        /\ lastSet' = Some([value |-> v, ttl |-> ttl, at |-> now])
        /\ got' = None
        /\ UNCHANGED << now, call, servedFor, concVars, response >>

CacheGet ==
    /\ got' = Some([result |-> InMemoryCache_get(value, expiry_epoch, now), at |-> now])
    /\ expiry_epoch' = expiry_after_get(expiry_epoch, now)
    /\ UNCHANGED << now, value, call, lastSet, prevSet, servedFor, concVars, response >>

NextCache == CacheSet \/ CacheGet \/ Tick

SpecCache == Init /\ [][NextCache]_vars

----------------------------------------------------------------------------
(* fetch_abc_feed(feed_name, full_text): news_feed.py lines 46-93.         *)
(* One action per way through the function; Fetch is their disjunction.    *)

(* what feedparser.parse can deliver: a document of entries, each with the *)
(* outcome its enrichment would have                                       *)
EntryOutcomes(entry, full_text) ==
    IF EnrichAttempted(entry, full_text) THEN Outcomes ELSE {NotAttempted}

Items(full_text) ==
    UNION { { [entry |-> e, outcome |-> o] : o \in EntryOutcomes(e, full_text) } :
              e \in EntryPool }

DocumentsWithFullText == SeqsUpTo(Items(TRUE), MaxEntries)
DocumentsWithoutFullText == SeqsUpTo(Items(FALSE), MaxEntries)

Documents(full_text) ==
    IF full_text THEN DocumentsWithFullText ELSE DocumentsWithoutFullText

EntriesOf(doc) == [ i \in 1..Len(doc) |-> doc[i].entry ]
OutcomesOf(doc) == [ i \in 1..Len(doc) |-> doc[i].outcome ]

(* the causes a failing feedparser.parse raises with *)
FeedFailures == {"requests.RequestException", "xml parse error"}

(* variant: the slot is consulted only for the arguments it was filled for *)
CacheLookup_keyed(feed_name, full_text) ==
    IF servedFor = Some([feed_name |-> feed_name, full_text |-> full_text])
    THEN InMemoryCache_get(value, expiry_epoch, now)
    ELSE None

(* line 60: cached = _feed_cache.get(); the arguments play no part *)
CacheLookup(feed_name, full_text) == InMemoryCache_get(value, expiry_epoch, now)

(* variant: the propagated exception is the one that was raised *)
FeedLevelError_reraised(exc) == [kind |-> exc, cause |-> ""]

(* lines 92-93: whatever the try block raises becomes a RuntimeError whose *)
(* message holds the exception                                             *)
FeedLevelError(exc) == [kind |-> "RuntimeError", cause |-> exc]

(* line 66: raised before the try block of line 68 is entered *)
InvalidNameError == [kind |-> "ValueError", cause |-> ""]

(* variant: a document without entries is treated as a failure *)
LoopEscapes_on_empty(entries, outcomes, full_text) ==
    \/ Len(entries) = 0
    \/ \E i \in 1..Len(entries) :
          EnrichAttempted(entries[i], full_text) /\ EnrichEscapes(outcomes[i])

(* lines 71-88: does an exception leave the loop?  Only an enrichment can  *)
(* raise in it, so a document without entries passes it untouched          *)
LoopEscapes(entries, outcomes, full_text) ==
    \E i \in 1..Len(entries) :
        EnrichAttempted(entries[i], full_text) /\ EnrichEscapes(outcomes[i])

(* lines 61-62: a cache hit returns the cached list at once *)
FetchHit(feed_name, full_text) ==
    LET cached == CacheLookup(feed_name, full_text) IN
    /\ cached # None
    /\ call' = CallRecord("ok", feed_name, full_text, TRUE, cached[1], FALSE,
                          << >>, << >>, "", "", 0, 0)
    /\ expiry_epoch' = expiry_after_get(expiry_epoch, now)
    /\ UNCHANGED << now, value, lastSet, got, servedFor, concVars >>

(* lines 64-66: on a miss an unregistered name raises ValueError *)
FetchInvalidName(feed_name, full_text) ==
    /\ CacheLookup(feed_name, full_text) = None
    /\ abc_feeds_get(feed_name) = None
    /\ call' = CallRecord(InvalidNameError.kind, feed_name, full_text, FALSE, << >>,
                          FALSE, << >>, << >>, "", InvalidNameError.cause, 0, 0)
    /\ UNCHANGED << now, value, expiry_epoch, lastSet, got, servedFor, concVars >>

(* variant: the except branch leaves an empty batch in the slot *)
value_after_failure_empty(v) == Some(<< >>)

(* lines 92-93: the except branch only raises; _value stays what it was *)
value_after_failure(v) == v

(* lines 68-70, 92-93: feedparser.parse raises, re-raised as RuntimeError *)
FetchFeedError(feed_name, full_text) ==
    /\ CacheLookup(feed_name, full_text) = None
    /\ abc_feeds_get(feed_name) # None
    /\ \E exc \in FeedFailures :
        call' = CallRecord(FeedLevelError(exc).kind, feed_name, full_text, FALSE,
                           << >>, FALSE, << >>, << >>, exc,
                           FeedLevelError(exc).cause, 1, 0)
    /\ value' = value_after_failure(value)
    /\ UNCHANGED << now, expiry_epoch, lastSet, got, servedFor, concVars >>

(* lines 68-91: the feed parses, the articles are built, cached, returned; *)
(* an exception leaving the loop would end in lines 92-93 instead          *)
FetchStoreFrom(docs, feed_name, full_text) ==
    /\ CacheLookup(feed_name, full_text) = None
    /\ abc_feeds_get(feed_name) # None
    /\ \E doc \in docs :
        LET entries   == EntriesOf(doc)
            outcomes  == OutcomesOf(doc)
            attempted == { i \in 1..Len(entries) : EnrichAttempted(entries[i], full_text) }
            escaped   == LoopEscapes(entries, outcomes, full_text)
            articles  == BuildArticles(entries, outcomes, full_text)
            c         == InMemoryCache_set(Some(articles), rss_cache_ttl_seconds, now)
        IN
        IF escaped
        THEN /\ call' = CallRecord(FeedLevelError("enrichment").kind, feed_name,
                                   full_text, FALSE, << >>, TRUE, entries, outcomes,
                                   "", FeedLevelError("enrichment").cause, 1,
                                   Cardinality(attempted))
             /\ UNCHANGED << value, expiry_epoch, lastSet, servedFor >>
        ELSE /\ value' = c.value
             /\ expiry_epoch' = c.expiry_epoch
             /\ lastSet' = Some([ value |-> articles, ttl |-> rss_cache_ttl_seconds,
                                  at |-> now ])
             /\ servedFor' = IF now < c.expiry_epoch
                             THEN Some([feed_name |-> feed_name, full_text |-> full_text])
                             ELSE None
             /\ call' = CallRecord("ok", feed_name, full_text, FALSE, articles, TRUE,
                                   entries, outcomes, "", "", 1, Cardinality(attempted))
    /\ UNCHANGED << now, got, concVars >>

FetchStore(feed_name, full_text) ==
    FetchStoreFrom(Documents(full_text), feed_name, full_text)

(* fetch_abc_feed called directly, outside any request handler *)
Fetch ==
    \E feed_name \in FeedNames, full_text \in BOOLEAN :
        \/ FetchHit(feed_name, full_text) /\ UNCHANGED << prevSet, response >>
        \/ FetchInvalidName(feed_name, full_text) /\ UNCHANGED << prevSet, response >>
        \/ FetchFeedError(feed_name, full_text) /\ UNCHANGED << prevSet, response >>
        \/ FetchStore(feed_name, full_text) /\ UNCHANGED << prevSet, response >>

Next == Fetch \/ Tick

Spec == Init /\ [][Next]_vars

----------------------------------------------------------------------------
(* Helpers of the properties below *)

(* a fetch call has just returned or raised *)
Called == call.kind # "none"

(* the positions of the parsed document whose enrichment was attempted *)
AttemptedAt == { i \in 1..Len(call.entries) :
                   call.full_text /\ "link" \in DOMAIN call.entries[i]
                                  /\ call.entries[i].link # "" }

(* an enrichment failed: it raised, or it extracted no text *)
EnrichFailed(outcome) == outcome.raised \/ outcome.text = ""

(* the article the entry at position i of the parsed document gives, field *)
(* by field, apart from full_text                                          *)
FieldOf(entry, name) == IF name \in DOMAIN entry THEN entry[name] ELSE ""

BuiltFrom(article, entry) ==
    /\ article.title = FieldOf(entry, "title")
    /\ article.link = FieldOf(entry, "link")
    /\ article.published = FieldOf(entry, "published")
    /\ article.summary = FieldOf(entry, "summary")

----------------------------------------------------------------------------
(* C1 -- TTL correctness of InMemoryCache: with set(v, T) executed at t0   *)
(* (v not None) and no later set, a get() at time t returns v when         *)
(* t0 <= t < t0 + T and returns None when t >= t0 + T; t = t0 + T is       *)
(* already a miss.  (SpecCache)                                            *)
C1_TtlCorrectness ==
    (got # None /\ lastSet # None) =>
        /\ got[1].at >= lastSet[1].at
        /\ got[1].result =
              IF got[1].at < lastSet[1].at + lastSet[1].ttl
              THEN Some(lastSet[1].value)
              ELSE None

(* a get exactly at t0 + T, with T > 0, that missed *)
C1_Witness ==
    /\ got # None /\ lastSet # None
    /\ lastSet[1].ttl > 0
    /\ got[1].at = lastSet[1].at + lastSet[1].ttl
    /\ got[1].result = None

(* C2 -- Single-slot overwrite: after set(v1, T1) followed by set(v2, T2)  *)
(* the slot holds v2 alone, its expiry is the time of the second set plus  *)
(* T2 whatever the first set left, get() returns v2 or None and never v1.  *)
(* (SpecCache)                                                             *)
C2_SingleSlotOverwrite ==
    (prevSet # None /\ lastSet # None) =>
        /\ value = Some(lastSet[1].value)
        /\ expiry_epoch = lastSet[1].at + lastSet[1].ttl
        /\ got # None =>
            /\ got[1].result \in {None, Some(lastSet[1].value)}
            /\ (got[1].result # None) <=> (got[1].at < lastSet[1].at + lastSet[1].ttl)
            /\ prevSet[1].value # lastSet[1].value =>
                  got[1].result # Some(prevSet[1].value)

(* v1 was stored with a window that is still open, v2 # v1 was stored with *)
(* a shorter one that has closed, and get() returns None                   *)
C2_Witness ==
    /\ prevSet # None /\ lastSet # None /\ got # None
    /\ prevSet[1].value # lastSet[1].value
    /\ got[1].at < prevSet[1].at + prevSet[1].ttl
    /\ got[1].at >= lastSet[1].at + lastSet[1].ttl
    /\ got[1].result = None

(* C3 -- Round-trip idempotence: once a fetch has stored its result, every *)
(* fetch made before that store's TTL has run out returns the stored       *)
(* sequence and makes no network request, neither for the feed nor for an  *)
(* article.                                                                *)
C3_RoundTripIdempotence ==
    [][ ( /\ lastSet # None
          /\ now < lastSet[1].at + lastSet[1].ttl
          /\ now' = now
          /\ call'.kind # "none" )
        => ( /\ call'.kind = "ok"
             /\ call'.result = lastSet[1].value
             /\ call'.feed_requests = 0
             /\ call'.enrich_requests = 0 ) ]_vars

(* a second call, later than the storing one and inside its window, that   *)
(* returned the stored non-empty sequence                                  *)
C3_Witness ==
    /\ Called /\ lastSet # None
    /\ call.at > lastSet[1].at
    /\ call.at < lastSet[1].at + lastSet[1].ttl
    /\ call.kind = "ok" /\ call.feed_requests = 0
    /\ call.result = lastSet[1].value
    /\ Len(call.result) > 0

(* C4 -- Invalid feed name, as claimed: every fetch call with a name that  *)
(* is not registered raises ValueError and makes no network request,       *)
(* whatever calls came before it.                                          *)
C4_InvalidNameAlwaysRejected ==
    (Called /\ call.feed_name \notin DOMAIN abc_feeds) =>
        /\ call.kind = "ValueError"
        /\ call.feed_requests = 0
        /\ call.enrich_requests = 0

(* C5 -- Per-item isolation: when the feed parsed, full text was asked for *)
(* and some enrichment raised, the call returns one article per entry, no  *)
(* exception leaves it, every article whose enrichment failed has          *)
(* full_text None and every other enriched article has the text its own    *)
(* enrichment extracted.                                                   *)
C5_PerItemIsolation ==
    ( /\ Called /\ call.parsed /\ call.full_text
      /\ \E i \in AttemptedAt : call.outcomes[i].raised )
    => /\ call.kind = "ok"
       /\ Len(call.result) = Len(call.entries)
       /\ \A i \in AttemptedAt :
            call.result[i].full_text =
                IF EnrichFailed(call.outcomes[i]) THEN None
                ELSE Some(call.outcomes[i].text)

(* two linked articles, the first enrichment raised, the second gave text *)
C5_Witness ==
    /\ Called /\ call.parsed /\ call.full_text /\ call.kind = "ok"
    /\ Len(call.result) = 2 /\ AttemptedAt = {1, 2}
    /\ call.outcomes[1].raised
    /\ call.result[1].full_text = None
    /\ call.result[2].full_text = Some("body text")

C7_OrderPreservation ==
    (Called /\ call.parsed) =>
        /\ call.kind = "ok"
        /\ Len(call.result) = Len(call.entries)
        /\ \A i \in 1..Len(call.entries) :
              BuiltFrom(call.result[i], call.entries[i])

(* two different entries, full text asked for, one enrichment failed *)
C7_Witness ==
    /\ Called /\ call.parsed /\ call.kind = "ok" /\ call.full_text
    /\ Len(call.entries) = 2
    /\ call.entries[1] # call.entries[2]
    /\ call.result[1].title # call.result[2].title
    /\ \E i \in AttemptedAt : call.outcomes[i].raised

NonEmptyOrAbsent(articles) ==
    \A i \in 1..Len(articles) :
        \/ articles[i].full_text = None
        \/ /\ Len(articles[i].full_text) = 1
           /\ articles[i].full_text[1] # ""

C9_FullTextNeverEmpty ==
    /\ call.kind = "ok" => NonEmptyOrAbsent(call.result)
    /\ value # None => NonEmptyOrAbsent(value[1])

(* an extraction that gave no text and one that raised, both left None *)
C9_Witness ==
    /\ Called /\ call.parsed /\ call.kind = "ok" /\ AttemptedAt = {1, 2}
    /\ call.outcomes[1] = Extracted("")
    /\ call.outcomes[2].raised
    /\ call.result[1].full_text = None
    /\ call.result[2].full_text = None
    /\ value = Some(call.result)

(* C10 -- Enrichment result accepted as-is, as claimed: whenever download  *)
(* and parse of an article's link did not raise, full_text is exactly the  *)
(* string the extractor returned, whatever that string is.                 *)
C10_AnyStringAccepted ==
    (Called /\ call.parsed /\ call.kind = "ok") =>
        \A i \in AttemptedAt :
            ~call.outcomes[i].raised =>
                call.result[i].full_text = Some(call.outcomes[i].text)

(* C10, amended -- whenever download and parse did not raise, full_text is *)
(* exactly the extracted string if that string is non-empty, and None if   *)
(* the extractor returned the empty string.                                *)
C10_NonEmptyStringAccepted ==
    (Called /\ call.parsed /\ call.kind = "ok") =>
        \A i \in AttemptedAt :
            ~call.outcomes[i].raised =>
                call.result[i].full_text =
                    IF call.outcomes[i].text = "" THEN None
                    ELSE Some(call.outcomes[i].text)

(* an enrichment that returned text, next to one that returned none *)
C10_Witness ==
    /\ Called /\ call.parsed /\ call.kind = "ok" /\ AttemptedAt = {1, 2}
    /\ call.outcomes[1] = Extracted("body text")
    /\ call.outcomes[2] = Extracted("")
    /\ call.result[1].full_text = Some("body text")
    /\ call.result[2].full_text = None

(* C11 -- full_text only when requested, as claimed: every article a     *)
(* call with full_text = FALSE returns has full_text None, whatever calls  *)
(* came before it.                                                         *)
C11_AbsentWhenNotRequested ==
    (Called /\ call.kind = "ok" /\ ~call.full_text) =>
        \A i \in 1..Len(call.result) : call.result[i].full_text = None

(* C12 -- Empty feed: when the feed parsed with zero entries on a cache    *)
(* miss, the call returns the empty sequence and raises nothing.           *)
C12_EmptyFeed ==
    (Called /\ call.parsed /\ Len(call.entries) = 0) =>
        /\ call.kind = "ok"
        /\ call.result = << >>
        /\ call.feed_requests = 1

(* an empty document came back after a stale non-empty value had expired *)
C12_Witness ==
    /\ Called /\ call.parsed /\ call.entries = << >>
    /\ call.kind = "ok" /\ call.result = << >>
    /\ call.at > 0
    /\ value = Some(<< >>)

(* C13 -- Missing optional fields: each of title, link, published and      *)
(* summary of a built article is the entry's field when the entry has it   *)
(* and the empty string when it lacks it.                                  *)
ArticleFields == {"title", "link", "published", "summary"}

C13_MissingOptionalFields ==
    (Called /\ call.parsed) =>
        /\ call.kind = "ok"
        /\ \A i \in 1..Len(call.entries) :
              /\ \A f \in ArticleFields \ DOMAIN call.entries[i] :
                    call.result[i][f] = ""
              /\ \A f \in ArticleFields \cap DOMAIN call.entries[i] :
                    call.result[i][f] = call.entries[i][f]

(* an entry without published and summary next to one without title and   *)
(* link                                                                    *)
C13_Witness ==
    /\ Called /\ call.parsed /\ call.kind = "ok" /\ Len(call.entries) = 2
    /\ DOMAIN call.entries[1] = {"title", "link"}
    /\ DOMAIN call.entries[2] = {"published", "summary"}
    /\ call.result[1].published = "" /\ call.result[1].summary = ""
    /\ call.result[2].title = "" /\ call.result[2].link = ""


(***************************************************************************)
(* Interleaved calls.  routers/nlp.py declares `home` with a plain def, so  *)
(* FastAPI runs it in a thread pool and several fetch_abc_feed calls may    *)
(* run at once on the one module-level cache.  Each thread makes one call;  *)
(* a step is one read or one write of the shared fields _value and          *)
(* _expiry_epoch, or one iteration of the entry loop on the thread's own    *)
(* locals.  All calls fall inside one TTL window: the clock stands still.   *)
(***************************************************************************)
Threads == 1..NumThreads

(* the feed documents the interleaved calls may download *)
ConcFeeds ==
    { << >> } \cup { es \in [1..2 -> EntryPool] : es[1] # es[2] /\ "title" \in DOMAIN es[1] }

ConcFeedNames == {"top_stories", "does-not-exist"}

Last(s) == s[Len(s)]

(* the entry loop has run through once the list holds one article per entry *)
LoopDone_after_first(n, entries) == n >= 1 \/ n = Len(entries)

LoopDone(n, entries) == n = Len(entries)

ThreadDone(t, kind, hit, result, from) ==
    threads' = [threads EXCEPT ![t].pc = "done", ![t].kind = kind, ![t].hit = hit, ![t].result = result, ![t].from = from]

(* the call starts; get() evaluates `self._value is not None` *)
ConcGetValue(t) ==
    /\ threads[t].pc = "idle"
    /\ \E feed_name \in ConcFeedNames, full_text \in BOOLEAN :
          threads' = [threads EXCEPT ![t].feed_name = feed_name,
                                     ![t].full_text = full_text,
                                     ![t].pc = IF value # None THEN "get_expiry"
                                                               ELSE "miss"]
    /\ UNCHANGED << now, value, expiry_epoch, call, lastSet, prevSet, got, servedFor, setOrder, response >>

(* get() evaluates `time.time() < self._expiry_epoch` *)
ConcGetExpiry(t) ==
    /\ threads[t].pc = "get_expiry"
    /\ threads' = [threads EXCEPT ![t].pc = IF now < expiry_epoch THEN "get_return"
                                                                   ELSE "miss"]
    /\ UNCHANGED << now, value, expiry_epoch, call, lastSet, prevSet, got, servedFor, setOrder, response >>

(* get() reads _value to return it; fetch_abc_feed returns it if not None *)
ConcGetReturn(t) ==
    /\ threads[t].pc = "get_return"
    /\ IF value # None
          THEN ThreadDone(t, "ok", TRUE, value[1], Last(setOrder))
          ELSE threads' = [threads EXCEPT ![t].pc = "miss"]
    /\ UNCHANGED << now, value, expiry_epoch, call, lastSet, prevSet, got, servedFor, setOrder, response >>

ConcInvalidName(t) ==
    /\ threads[t].pc = "miss"
    /\ abc_feeds_get(threads[t].feed_name) = None
    /\ ThreadDone(t, InvalidNameError.kind, FALSE, << >>, 0)
    /\ UNCHANGED << now, value, expiry_epoch, call, lastSet, prevSet, got, servedFor, setOrder, response >>

(* feedparser.parse raises *)
ConcFeedError(t) ==
    /\ threads[t].pc = "miss"
    /\ abc_feeds_get(threads[t].feed_name) # None
    /\ \E exc \in FeedFailures :
          threads' = [threads EXCEPT ![t].pc = "done", ![t].feed_requests = 1,
                                     ![t].kind = FeedLevelError(exc).kind]
    /\ UNCHANGED << now, value, expiry_epoch, call, lastSet, prevSet, got, servedFor, setOrder, response >>

(* feedparser.parse returns a document *)
ConcParse(t) ==
    /\ threads[t].pc = "miss"
    /\ abc_feeds_get(threads[t].feed_name) # None
    /\ \E entries \in ConcFeeds :
          threads' = [threads EXCEPT ![t].pc = "loop", ![t].feed_requests = 1,
                                     ![t].entries = entries]
    /\ UNCHANGED << now, value, expiry_epoch, call, lastSet, prevSet, got, servedFor, setOrder, response >>

(* one iteration of `for entry in parsed.entries` *)
ConcLoop(t) ==
    /\ threads[t].pc = "loop"
    /\ ~LoopDone(Len(threads[t].articles), threads[t].entries)
    /\ LET th == threads[t]
           entry == th.entries[Len(th.articles) + 1]
       IN  \E outcome \in EntryOutcomes(entry, th.full_text) :
              IF EnrichAttempted(entry, th.full_text) /\ EnrichEscapes(outcome)
                 THEN threads' = [threads EXCEPT ![t].pc = "done",
                                                 ![t].kind = FeedLevelError("enrichment").kind]
                 ELSE threads' = [threads EXCEPT
                          ![t].articles = Append(th.articles, BuildArticle(entry, outcome, th.full_text)),
                          ![t].outcomes = Append(th.outcomes, outcome)]
    /\ UNCHANGED << now, value, expiry_epoch, call, lastSet, prevSet, got, servedFor, setOrder, response >>

(* set(): `self._value = value` *)
ConcSetValue(t) ==
    /\ threads[t].pc = "loop"
    /\ LoopDone(Len(threads[t].articles), threads[t].entries)
    /\ value' = InMemoryCache_set(Some(threads[t].articles), rss_cache_ttl_seconds, now).value
    /\ setOrder' = Append(setOrder, t)
    /\ threads' = [threads EXCEPT ![t].pc = "set_expiry"]
    /\ UNCHANGED << now, expiry_epoch, call, lastSet, prevSet, got, servedFor, response >>

(* set(): `self._expiry_epoch = time.time() + ttl_seconds`, then *)
(* `return articles` *)
ConcSetExpiry(t) ==
    /\ threads[t].pc = "set_expiry"
    /\ expiry_epoch' = InMemoryCache_set(Some(threads[t].articles), rss_cache_ttl_seconds, now).expiry_epoch
    /\ ThreadDone(t, "ok", FALSE, threads[t].articles, t)
    /\ UNCHANGED << now, value, call, lastSet, prevSet, got, servedFor, setOrder, response >>

ConcStep(t) ==
    \/ ConcGetValue(t)
    \/ ConcGetExpiry(t)
    \/ ConcGetReturn(t)
    \/ ConcInvalidName(t)
    \/ ConcFeedError(t)
    \/ ConcParse(t)
    \/ ConcLoop(t)
    \/ ConcSetValue(t)
    \/ ConcSetExpiry(t)

NextConc == \E t \in Threads : ConcStep(t)

SpecConc == Init /\ [][NextConc]_vars


-----------------------------------------------------------------------------
(* the list is the whole list thread w built: one article per entry of the *)
(* document w downloaded, in order                                         *)
CompleteFor(articles, w) ==
    /\ w \in Threads
    /\ articles = threads[w].articles
    /\ Len(articles) = Len(threads[w].entries)
    /\ \A i \in 1..Len(articles) : BuiltFrom(articles[i], threads[w].entries[i])

(* C14 -- complete cached value under concurrency: whatever calls run      *)
(* interleaved, the value in the slot and every value a call gets from the *)
(* cache is the complete article list one single fetch built; never a      *)
(* partial list, never a mix of two fetches.  (SpecConc)                   *)
C14_CompleteCachedValue ==
    /\ value # None =>
          /\ setOrder # << >>
          /\ CompleteFor(value[1], Last(setOrder))
    /\ \A t \in Threads :
          (threads[t].pc = "done" /\ threads[t].hit) =>
              CompleteFor(threads[t].result, threads[t].from)

(* a call is served from the cache the two-article list another call built *)
C14_Witness ==
    \E t \in Threads :
        /\ threads[t].pc = "done" /\ threads[t].hit
        /\ threads[t].from # t
        /\ Len(threads[t].result) = 2
        /\ value = Some(threads[t].result)

(* C15 -- no request coalescing: two interleaved calls that both miss each *)
(* download the feed themselves and each returns the list it built itself; *)
(* once every call has finished the slot holds the list of the call that   *)
(* assigned _value last.  (SpecConc)                                       *)
C15_NoCoalescing ==
    \A a, b \in Threads :
        ( /\ a # b
          /\ threads[a].pc = "done" /\ threads[a].kind = "ok" /\ ~threads[a].hit
          /\ threads[b].pc = "done" /\ threads[b].kind = "ok" /\ ~threads[b].hit ) =>
            /\ threads[a].feed_requests = 1
            /\ threads[b].feed_requests = 1
            /\ CompleteFor(threads[a].result, a)
            /\ CompleteFor(threads[b].result, b)
            /\ (\A t \in Threads : threads[t].pc = "done") =>
                  value = Some(threads[Last(setOrder)].result)

(* both calls missed and built different lists; the second to assign _value *)
(* was thread 1, whose list the slot holds                                 *)
C15_Witness ==
    /\ \A t \in {1, 2} : threads[t].pc = "done" /\ threads[t].kind = "ok" /\ ~threads[t].hit
    /\ threads[1].result # threads[2].result
    /\ setOrder[1] = 2 /\ setOrder[2] = 1
    /\ value = Some(threads[1].result)


-----------------------------------------------------------------------------
(* The /news request handlers, routers/news.py.  A handler is one action:  *)
(* the fetch it makes and the response it builds.  The handlers are async  *)
(* functions that never await, so the event loop runs them one after the   *)
(* other.  All requests fall inside one TTL window.                        *)
(*                                                                         *)
(* The strings a handler takes apart (tools, question) are sequences of    *)
(* pieces: a blank " ", a comma ",", or a run of other characters.         *)

RECURSIVE split(_, _)
(* str.split(sep): the pieces between the separators, empty ones included *)
split(s, sep) ==
    IF \A i \in 1..Len(s) : s[i] # sep
    THEN << s >>
    ELSE LET i == CHOOSE k \in 1..Len(s) : s[k] = sep /\ \A j \in 1..(k - 1) : s[j] # sep
         IN  << SubSeq(s, 1, i - 1) >> \o split(SubSeq(s, i + 1, Len(s)), sep)

RECURSIVE lstrip(_)
lstrip(s) == IF s # << >> /\ s[1] = " " THEN lstrip(Tail(s)) ELSE s

RECURSIVE rstrip(_)
rstrip(s) == IF s # << >> /\ s[Len(s)] = " " THEN rstrip(SubSeq(s, 1, Len(s) - 1)) ELSE s

(* str.strip() *)
strip(s) == rstrip(lstrip(s))

(* an article's text as a sequence of pieces *)
Str(text) == IF text = "" THEN << >> ELSE << text >>

(* the feed documents a request may find upstream *)
NewsDocuments(full_text) ==
    { d \in SeqsUpTo(Items(full_text), 2) :
        \/ Len(d) = 0
        \/ /\ Len(d) = 2
           /\ EnrichAttempted(d[1].entry, TRUE)
           /\ d[2].entry # d[1].entry }

(* the values of the tools parameter *)
ToolStrings ==
    { << "sentiment" >>,
      << "sentiment", ",", "ner" >>,
      << " ", "ner", " ", ",", " ", "qa", " " >>,
      << "bogus", ",", "sentiment" >>,
      << >>,
      << ",", "," >>,
      << "qa", ",", "sentiment" >>,
      << "sentiment", ",", "sentiment" >>,
      << "summarize", ",", "emotion", ",", "bogus" >>,
      << "qa" >> }

(* the values of the question parameter: absent, empty, blank, padded, *)
(* and one with a blank inside                                          *)
Questions ==
    { None, Some(<< >>), Some(<< " ", " " >>), Some(<< " ", "Who?", " " >>),
      Some(<< "Who", " ", "won?" >>) }

(* the values of the index parameter; documents hold 0 or 2 entries *)
Indexes == -3..2

(* line 81 *)
DefaultQuestion == << "What is the main point of this article?" >>

(* the keys of the strategies dict, lines 61-67 *)
strategies == { << "sentiment" >>, << "ner" >>, << "summarize" >>, << "emotion" >>, << "qa" >> }

(* the analyses that raise during one request: none, or one tool's *)
BrokenSets == { {}, { << "sentiment" >> }, { << "qa" >> } }

(* variant: an identifier without a strategy is analysed all the same *)
strategies_get_any(t) == TRUE

(* strategies.get(t) is not None *)
strategies_get(t) == t \in strategies

(* variant: every failure of the fetch is reported as a bad request *)
get_news_status_always_400(kind) ==
    IF kind = "ok" THEN 200 ELSE 400

(* lines 22-28: the status get_news answers with *)
get_news_status(kind) ==
    IF kind = "ok" THEN 200
    ELSE IF kind = InvalidNameError.kind THEN 400
    ELSE 502

(* get_news, lines 21-28, after its fetch c *)
get_news(c, feed_name) ==
    [ NoResponse EXCEPT !.handler = "get_news",
                        !.feed_name = feed_name,
                        !.status = get_news_status(c.kind),
                        !.count = IF c.kind = "ok" THEN Len(c.result) ELSE 0 ]

(* articles[index], line 53: None stands for IndexError *)
list_getitem(l, index) ==
    IF 0 <= index /\ index < Len(l) THEN Some(l[index + 1])
    ELSE IF -Len(l) <= index /\ index < 0 THEN Some(l[Len(l) + index + 1])
    ELSE None

(* line 57 *)
tool_list_of(tools) ==
    LET kept == SelectSeq(split(tools, ","), LAMBDA t : strip(t) # << >>)
    IN  [ i \in 1..Len(kept) |-> strip(kept[i]) ]

(* line 69 *)
article_text(article) ==
    IF article.full_text # None /\ Truthy(article.full_text[1])
    THEN article.full_text[1]
    ELSE article.summary

(* line 81: `question or default` tests the question before it is trimmed *)
qa_question_of(question) ==
    strip(IF question # None /\ question[1] # << >> THEN question[1] ELSE DefaultQuestion)

(* one call strat.analyze(text=..., context=...); the result is opaque and *)
(* stands for itself                                                       *)
Invocation(tool, text, context) == [ tool |-> tool, text |-> text, context |-> context ]

(* lines 71-82: the calls the handler makes when none fails, in order *)
Planned(tool_list, text, question) ==
    LET non_qa == SelectSeq(tool_list, LAMBDA t : t # << "qa" >> /\ strategies_get(t))
    IN  [ i \in 1..Len(non_qa) |-> Invocation(non_qa[i], Str(text), None) ]
        \o (IF \E i \in 1..Len(tool_list) : tool_list[i] = << "qa" >>
            THEN << Invocation(<< "qa" >>, qa_question_of(question), Some(Str(text))) >>
            ELSE << >>)

(* variant: a failing analysis is skipped and the remaining ones still run *)
CallsUntilFailure_skips(planned, first) == planned

(* lines 71-82 hold no try: the call that raises is the last one made *)
CallsUntilFailure(planned, first) == SubSeq(planned, 1, first)

(* analyze_article, lines 44-92, after its fetch c *)
analyze_article(c, feed_name, index, tools, question, broken) ==
    LET request == [ NoResponse EXCEPT !.handler = "analyze_article",
                                       !.feed_name = feed_name, !.index = index,
                                       !.tools = tools, !.question = question,
                                       !.broken = broken ]
        article == IF c.kind = "ok" THEN list_getitem(c.result, index) ELSE None
    IN
    IF article = None
    THEN [ request EXCEPT !.status = 400 ]
    ELSE LET tool_list == tool_list_of(tools)
             text      == article_text(article[1])
             planned   == Planned(tool_list, text, question)
             failing   == { i \in 1..Len(planned) : planned[i].tool \in broken }
             first     == CHOOSE i \in failing : \A j \in failing : i <= j
             keys      == { planned[i].tool : i \in 1..Len(planned) }
         IN  IF failing # {}
             THEN [ request EXCEPT !.status = 500, !.article = article, !.text = text,
                                   !.tool_list = tool_list,
                                   !.calls = CallsUntilFailure(planned, first) ]
             ELSE [ request EXCEPT !.status = 200, !.article = article, !.text = text,
                                   !.tool_list = tool_list,
                                   !.calls = planned,
                                   !.outputs = [ k \in keys |->
                                       planned[CHOOSE i \in 1..Len(planned) : planned[i].tool = k] ] ]

(* fetch_abc_feed as a handler calls it *)
FetchCall(docs, feed_name, full_text) ==
    /\ \/ FetchHit(feed_name, full_text)
       \/ FetchInvalidName(feed_name, full_text)
       \/ FetchFeedError(feed_name, full_text)
       \/ FetchStoreFrom(docs, feed_name, full_text)
    /\ UNCHANGED prevSet

(* GET /news *)
GetNews ==
    \E feed_name \in FeedNames, full_text \in BOOLEAN :
        /\ response = NoResponse
        /\ FetchCall(NewsDocuments(full_text), feed_name, full_text)
        /\ response' = get_news(call', feed_name)

(* GET /news/analyze *)
AnalyzeArticle ==
    \E feed_name \in FeedNames :
        /\ response = NoResponse
        /\ FetchCall(NewsDocuments(TRUE), feed_name, TRUE)
        /\ \E index \in Indexes, tools \in ToolStrings, question \in Questions,
              broken \in BrokenSets :
              response' = analyze_article(call', feed_name, index, tools, question, broken)

(* the response has been sent; the event loop takes the next request *)
Deliver ==
    /\ response # NoResponse
    /\ response' = NoResponse
    /\ call' = NoCall
    /\ UNCHANGED << now, value, expiry_epoch, lastSet, prevSet, got, servedFor, concVars >>

NextNews == GetNews \/ AnalyzeArticle \/ Deliver

SpecNews == Init /\ [][NextNews]_vars


-----------------------------------------------------------------------------
C17_NewsDefaults200Or500 ==
    ( /\ response.handler = "get_news"
      /\ response.feed_name = "top_stories"
      /\ ~call.full_text ) =>
        response.status \in {200, 500}

(* C18 -- GET /news/analyze with feed_name=top_stories, index=0 and        *)
(* tools=sentiment always answers 200 or 500, whether the fetch succeeds,  *)
(* fails or returns no articles.  (SpecNews)                               *)
C18_AnalyzeDefaults200Or500 ==
    ( /\ response.handler = "analyze_article"
      /\ response.feed_name = "top_stories"
      /\ response.index = 0
      /\ response.tools = << "sentiment" >> ) =>
        response.status \in {200, 500}

(* the calls of the qa capability the handler made *)
QaCalls == { i \in 1..Len(response.calls) : response.calls[i].tool = << "qa" >> }

(* C19 -- QA question selection: when qa is requested, the question passed *)
(* to the QA capability is the supplied question trimmed if that is not    *)
(* empty, and otherwise (absent, empty, blank) the default question; the   *)
(* context passed is the article text.  (SpecNews)                         *)
C19_QuestionSelection ==
    ( /\ response.handler = "analyze_article"
      /\ response.status # 400
      /\ \E i \in 1..Len(response.tool_list) : response.tool_list[i] = << "qa" >> ) =>
        \A i \in QaCalls :
            /\ response.calls[i].text =
                  IF response.question # None /\ strip(response.question[1]) # << >>
                  THEN strip(response.question[1])
                  ELSE DefaultQuestion
            /\ response.calls[i].context = Some(Str(response.text))

(* the identifiers the tools parameter asks for *)
Requested ==
    { strip(t) : t \in { split(response.tools, ",")[i] : i \in 1..Len(split(response.tools, ",")) } }
        \ { << >> }

KnownTools == { << "sentiment" >>, << "ner" >>, << "summarize" >>, << "emotion" >>, << "qa" >> }

(* C20 -- tool dispatch: when every invoked analysis succeeds, outputs has *)
(* exactly one key per requested identifier among sentiment, ner,          *)
(* summarize, emotion and qa and none for any other; an unknown identifier *)
(* causes no error and no analysis call.  (SpecNews)                       *)
C20_ToolDispatch ==
    ( /\ response.handler = "analyze_article"
      /\ response.status # 400 ) =>
        /\ \A i \in 1..Len(response.calls) : response.calls[i].tool \in KnownTools
        /\ response.status = 200 => DOMAIN response.outputs = Requested \cap KnownTools
        /\ response.broken \cap Requested = {} => response.status = 200

(* two known tools and an unknown one: two keys, two calls, status 200 *)
C20_Witness ==
    /\ response.handler = "analyze_article"
    /\ response.status = 200
    /\ response.tools = << "summarize", ",", "emotion", ",", "bogus" >>
    /\ DOMAIN response.outputs = { << "summarize" >>, << "emotion" >> }
    /\ Len(response.calls) = 2


(* the calls of the latest request whose analysis raised *)
FailedCalls == { i \in 1..Len(response.calls) : response.calls[i].tool \in response.broken }

(* C21 -- fail-fast dispatch: when an analysis capability fails in         *)
(* analyze_article the failure reaches the caller (status 500), the        *)
(* failing analysis is called once only, no tool is invoked after it, and  *)
(* no outputs are returned.  (SpecNews)                                    *)
C21_FailFast ==
    ( /\ response.handler = "analyze_article"
      /\ FailedCalls # {} ) =>
        /\ response.status = 500
        /\ FailedCalls = { Len(response.calls) }
        /\ response.outputs = << >>

(* sentiment fails; ner, requested after it, is never called *)
C21_Witness ==
    /\ response.handler = "analyze_article"
    /\ response.tools = << "sentiment", ",", "ner" >>
    /\ response.broken = { << "sentiment" >> }
    /\ response.status = 500
    /\ Len(response.calls) = 1 /\ response.calls[1].tool = << "sentiment" >>


-----------------------------------------------------------------------------
(* The handlers of routers/nlp.py: `home` (GET /) and `analyze`            *)
(* (POST /analyze/{task}).  A handler is one action; a request is answered *)
(* before the next one is taken.                                           *)

(* the task identifiers requests carry: the five registered ones and one *)
(* that is not                                                            *)
Tasks == strategies \cup { << "invalid_task" >> }

(* the values of the form fields text and context: empty (the default of *)
(* context), blank, plain, padded                                         *)
FormTexts == { << >>, << " ", " " >>, << "What is this?" >>, << " ", "Test text", " " >> }

(* line 114 *)
QaRequiredMessage == "Both question and context are required for QA. Please provide both."

(* variant: the fields are tested without being trimmed *)
qa_inputs_missing_untrimmed(text, context) == text = << >> \/ context = << >>

(* line 113: not text.strip() or not context.strip() *)
qa_inputs_missing(text, context) == strip(text) = << >> \/ strip(context) = << >>

(* analyze, lines 112-140 *)
analyze(task, text, context, broken) ==
    LET request == [ handler |-> "analyze", status |-> 0, task |-> task, text |-> text,
                     context |-> context, broken |-> broken, message |-> "",
                     result |-> None, calls |-> << >> ]
        inv     == Invocation(task, text, Some(context))
    IN
    IF task = << "qa" >> /\ qa_inputs_missing(text, context)
    THEN [ request EXCEPT !.status = 200, !.message = QaRequiredMessage ]
    ELSE IF ~strategies_get(task)
    THEN [ request EXCEPT !.status = 500, !.message = "KeyError" ]
    ELSE IF task \in broken
    THEN [ request EXCEPT !.status = 500, !.calls = << inv >> ]
    ELSE [ request EXCEPT !.status = 200, !.calls = << inv >>, !.result = Some(inv) ]

(* home, lines 87-109, after its fetch c if it made one (None otherwise) *)
home(task, use_news, feed_name, c) ==
    [ handler |-> "home", task |-> task, use_news |-> use_news, feed_name |-> feed_name,
      status |-> IF strategies_get(task) THEN 200 ELSE 500,
      news_articles |-> IF c # None /\ c[1].kind = "ok" THEN c[1].result ELSE << >> ]

(* POST /analyze/{task} *)
Analyze ==
    /\ response = NoResponse
    /\ \E task \in Tasks, text \in FormTexts, context \in FormTexts, broken \in BrokenSets :
          response' = analyze(task, text, context, broken)
    /\ UNCHANGED << now, value, expiry_epoch, call, lastSet, prevSet, got, servedFor, concVars >>

(* GET / with use_news=1 *)
HomeWithNews ==
    \E task \in Tasks, feed_name \in FeedNames :
        /\ response = NoResponse
        /\ FetchCall(NewsDocuments(FALSE), feed_name, FALSE)
        /\ response' = home(task, TRUE, feed_name, Some(call'))

(* GET / without news *)
HomeWithoutNews ==
    /\ response = NoResponse
    /\ \E task \in Tasks, feed_name \in FeedNames :
          response' = home(task, FALSE, feed_name, None)
    /\ UNCHANGED << now, value, expiry_epoch, call, lastSet, prevSet, got, servedFor, concVars >>

NextNlp == Analyze \/ HomeWithNews \/ HomeWithoutNews \/ Deliver

SpecNlp == Init /\ [][NextNlp]_vars

(* C22 -- POST /analyze/{task} with a task that is not one of the five     *)
(* registered strategies answers 200 (an error page) and does not fail.    *)
(* (SpecNlp)                                                               *)
C22_InvalidTaskAnswers200 ==
    ( /\ response.handler = "analyze"
      /\ response.task \notin KnownTools ) =>
        response.status = 200

(* C23 -- the guard of POST /analyze/qa: when the question or the context  *)
(* is empty or blank (a missing context is empty) the QA strategy is not   *)
(* invoked and the answer is 200 with the message that both are required;  *)
(* when both are non-blank the QA strategy is invoked exactly once.        *)
(* (SpecNlp)                                                               *)
C23_QaGuard ==
    ( /\ response.handler = "analyze"
      /\ response.task = << "qa" >> ) =>
        IF strip(response.text) = << >> \/ strip(response.context) = << >>
        THEN /\ response.calls = << >>
             /\ response.status = 200
             /\ response.message = QaRequiredMessage
        ELSE /\ Len(response.calls) = 1
             /\ response.calls[1] = Invocation(<< "qa" >>, response.text, Some(response.context))

(* a question with the context missing: the message, and no call *)
C23_Witness ==
    /\ response.handler = "analyze"
    /\ response.task = << "qa" >>
    /\ response.text = << "What is this?" >> /\ response.context = << >>
    /\ response.status = 200 /\ response.message = QaRequiredMessage
    /\ response.calls = << >>


-----------------------------------------------------------------------------
(* C24 -- enrichment is attempted only where allowed: during one fetch the *)
(* enrichment is invoked at most once per article, only with               *)
(* full_text=true, only for articles whose link is not empty, never on a   *)
(* cache hit; an article with an empty link ends with full_text absent.    *)
(* (Spec)                                                                  *)
C24_EnrichmentOnlyWhereAllowed ==
    Called =>
        /\ call.hit => call.enrich_requests = 0
        /\ ~call.full_text => call.enrich_requests = 0
        /\ call.parsed =>
              /\ call.enrich_requests = Cardinality(AttemptedAt)
              /\ \A i \in 1..Len(call.entries) :
                    (call.outcomes[i] # NotAttempted) <=> (i \in AttemptedAt)
        /\ call.kind = "ok" =>
              \A i \in 1..Len(call.result) :
                  call.result[i].link = "" => call.result[i].full_text = None

(* a fetch with full text of a linked and a linkless entry: one enrichment *)
C24_Witness ==
    /\ Called /\ call.parsed /\ call.kind = "ok" /\ call.full_text
    /\ Len(call.entries) = 2
    /\ AttemptedAt = {1}
    /\ call.enrich_requests = 1
    /\ call.result[1].full_text = Some("body text")
    /\ call.result[2].link = "" /\ call.result[2].full_text = None


-----------------------------------------------------------------------------
(* fetch_abc_feed called over time, the store before the latest one kept   *)
(* in prevSet, so that a batch that has expired and the batch that         *)
(* replaced it can both be named.                                          *)
PrevSetAfterCall == IF lastSet' # lastSet THEN lastSet ELSE prevSet

FetchTracked ==
    \E feed_name \in FeedNames, full_text \in BOOLEAN :
        \/ /\ FetchHit(feed_name, full_text)
           /\ prevSet' = PrevSetAfterCall /\ UNCHANGED response
        \/ /\ FetchInvalidName(feed_name, full_text)
           /\ prevSet' = PrevSetAfterCall /\ UNCHANGED response
        \/ /\ FetchFeedError(feed_name, full_text)
           /\ prevSet' = PrevSetAfterCall /\ UNCHANGED response
        \/ /\ FetchStoreFrom(NewsDocuments(full_text), feed_name, full_text)
           /\ prevSet' = PrevSetAfterCall /\ UNCHANGED response

NextTtl == FetchTracked \/ Tick

SpecTtl == Init /\ [][NextTtl]_vars

(* a step that is one fetch_abc_feed call *)
FetchStep == now' = now /\ call'.kind # "none"

(* C25 -- refetch after expiry: once the clock is at or past the expiry    *)
(* the expired value is not returned by fetch again; the next fetch with a *)
(* registered name makes a network fetch and, when it succeeds, replaces   *)
(* the cached value and sets the expiry to the store time plus the TTL.    *)
(* (SpecTtl)                                                               *)
C25_RefetchAfterExpiry ==
    [][ ( /\ FetchStep
          /\ value # None
          /\ now >= expiry_epoch )
        => ( /\ ~call'.hit
             /\ abc_feeds_get(call'.feed_name) # None => call'.feed_requests = 1
             /\ call'.kind = "ok" =>
                   /\ call'.parsed
                   /\ value' = Some(call'.result)
                   /\ expiry_epoch' = now + rss_cache_ttl_seconds ) ]_vars

(* a batch had expired; the fetch after that stored a different one *)
C25_Witness ==
    /\ Called /\ ~call.hit /\ call.kind = "ok" /\ call.feed_requests = 1
    /\ prevSet # None /\ lastSet # None
    /\ prevSet[1].at + prevSet[1].ttl <= call.at
    /\ lastSet[1].at = call.at
    /\ prevSet[1].value # call.result
    /\ value = Some(call.result)
    /\ expiry_epoch = call.at + rss_cache_ttl_seconds

(* C26 -- no sliding expiration: a fetch that hits the cache leaves the    *)
(* cached value and its expiry as they were, so a batch is served only     *)
(* until TTL seconds after the fetch that stored it, however many hits     *)
(* come in between.  (SpecTtl)                                             *)
C26_NoSlidingExpiration ==
    [][ ( /\ FetchStep
          /\ call'.hit )
        => ( /\ value' = value
             /\ expiry_epoch' = expiry_epoch
             /\ lastSet # None
             /\ expiry_epoch' = lastSet[1].at + rss_cache_ttl_seconds
             /\ now < lastSet[1].at + rss_cache_ttl_seconds ) ]_vars

(* a hit half a TTL after the store; the expiry is still the store's *)
C26_Witness ==
    /\ Called /\ call.hit /\ lastSet # None
    /\ call.at = lastSet[1].at + TickSeconds
    /\ expiry_epoch = lastSet[1].at + rss_cache_ttl_seconds
    /\ value = Some(lastSet[1].value)

(* C27 -- a failed fetch leaves the cache unchanged: a call that raises    *)
(* ValueError or RuntimeError changes neither the cached value nor its     *)
(* expiry; the cache is written only by a call that returns.  (SpecTtl)    *)
C27_FailedFetchLeavesCache ==
    [][ /\ ( FetchStep /\ call'.kind \in {"ValueError", "RuntimeError"} )
            => ( value' = value /\ expiry_epoch' = expiry_epoch )
        /\ ( value' # value \/ expiry_epoch' # expiry_epoch )
            => ( /\ call'.kind = "ok" /\ ~call'.hit
                 /\ value' = Some(call'.result) ) ]_vars

(* the feed fails while an expired batch is in the slot: it is still there *)
C27_Witness ==
    /\ Called /\ call.kind = "RuntimeError" /\ call.feed_requests = 1
    /\ lastSet # None
    /\ lastSet[1].at + lastSet[1].ttl <= call.at
    /\ Len(lastSet[1].value) > 0
    /\ value = Some(lastSet[1].value)
    /\ expiry_epoch = lastSet[1].at + lastSet[1].ttl

-----------------------------------------------------------------------------
(* C29 -- article selection bounds in analyze_article: for a fetched       *)
(* sequence of n articles the request is rejected with 400 and no analysis *)
(* is run whenever index is not in 0..n-1 (every index >= n and every      *)
(* index < 0); for index in 0..n-1 the analysed article is the one at that *)
(* position.  (SpecNews)                                                   *)
C29_IndexBounds ==
    ( /\ response.handler = "analyze_article"
      /\ call.kind = "ok" ) =>
        IF 0 <= response.index /\ response.index < Len(call.result)
        THEN /\ response.status # 400
             /\ response.article = Some(call.result[response.index + 1])
        ELSE /\ response.status = 400
             /\ response.calls = << >>

(* C30 -- one invocation per distinct tool in analyze_article: each        *)
(* distinct requested known tool is invoked exactly once per request, even *)
(* when the list repeats an identifier, and qa is invoked only after every *)
(* other tool.  (SpecNews)                                                 *)
C30_OneInvocationPerTool ==
    ( /\ response.handler = "analyze_article"
      /\ response.status = 200 ) =>
        /\ \A k \in Requested \cap KnownTools :
              Cardinality({ i \in 1..Len(response.calls) : response.calls[i].tool = k }) = 1
        /\ \A i \in QaCalls : i = Len(response.calls)

====
